---- MODULE Spec2Model ----
(***************************************************************************)
(* NebulaSoft support agent: the bounded tool-calling loop of agent.py     *)
(* (terminal REPL) and app.py (web chat), and the ticket tools of tools.py *)
(* over the shared ticket log.                                             *)
(*                                                                         *)
(* Python strings that the code builds with f-strings are modelled as      *)
(* sequences of string tokens, an f-string being the concatenation of its  *)
(* pieces.  Strings the code only passes around are single TLA+ strings.   *)
(***************************************************************************)
EXTENDS Integers, Sequences, FiniteSets, TLC

(***************************************************************************)
(* Bounds of the model.                                                    *)
(***************************************************************************)
\* wall-clock ticks the model lets pass
MaxClock == 3
\* direct tool calls made in one behaviour of ToolSpec
MaxOps == 3
\* user inputs read in one session
MaxInputs == 2
\* tool calls the model requests in one session
MaxRequested == 5

\* clock ticks in one second: the wall clock is finer than the second the
\* ticket id is formatted to
TicksPerSecond == 2

\* ingest_user_document calls made in one session
MaxIngests == 4

\* lines in tickets.log that escalate_ticket did not write
MaxForeign == 1

\* the largest number of users a pricing call asks about
MaxUsers == 12

(***************************************************************************)
(* Program constants.                                                      *)
(***************************************************************************)
\* the budget off by one
max_iterations_6 == 5 + 1

\* run_agent_with_tools: max_iterations
max_iterations == 5

VARIABLES
    variant,      \* "repl" (agent.py) or "web" (app.py)
    state,        \* where the session is: IDLE, AWAIT_MODEL, DISPATCH_TOOLS, ...
    messages,     \* the conversation history handed to the model
    iteration,    \* run_agent_with_tools: iteration
    tool_calls,   \* response.tool_calls of the reply being dispatched
    callIdx,      \* position of the for loop in tool_calls
    result,       \* what run_agent_with_tools returned
    shown,        \* what the presentation layer showed last
    inputs,       \* number of user inputs read so far
    requested,    \* number of tool calls the model has requested so far
    modelCalls,   \* history: llm invocations in the current run of the loop
    toolRuns,     \* history: tool._run executions in the current run
    dispatched,   \* history: tool-result turns appended in the current run
    runStart,     \* history: length of the history when the current run began
    clock,        \* datetime.now(), in ticks
    logExists,    \* os.path.exists("tickets.log")
    ticketLog,    \* the lines of tickets.log, in file order
    lastCall,     \* the last direct tool call and what it returned
    filed,        \* history: the escalate_ticket calls that reported success
    ops,          \* number of direct tool calls made so far
    NEBULA_DB,    \* tools.py: the base index, or the absence of one
    TEMP_USER_DB, \* tools.py: the session upload index, or the absence of one
    ingests,      \* number of ingest_user_document calls made so far
    lastIngest,   \* the last ingest_user_document call: its document and outcome
    uploaded_sources, \* app.py: st.session_state.uploaded_sources of each session
    searcher      \* history: the session whose chat made the last search

loopVars == <<variant, state, messages, iteration, tool_calls, callIdx, result, shown,
              inputs, requested, modelCalls, toolRuns, dispatched, runStart>>

toolVars == <<clock, logExists, ticketLog, lastCall, filed, ops>>

\* the browser sessions one Streamlit process serves
Sessions == {"A", "B"}

kbVars == <<NEBULA_DB, TEMP_USER_DB, ingests, lastIngest, uploaded_sources, searcher>>

vars == <<loopVars, toolVars, kbVars>>

(***************************************************************************)
(* String helpers.                                                         *)
(***************************************************************************)
\* str.lower() on the strings the model passes as severities
Lower(s) ==
    CASE s = "HIGH" -> "high"
      [] s = "PRO" -> "pro"
      [] s = "Gold" -> "gold"
      [] s = "Low" -> "low"
      [] s = "AWFUL" -> "awful"
      [] OTHER -> s

\* str.upper() on the lower-cased severities
Upper(s) ==
    CASE s = "low" -> "LOW"
      [] s = "medium" -> "MEDIUM"
      [] s = "high" -> "HIGH"
      [] OTHER -> s

\* the format without its seconds, '%Y%m%d%H%M'
Strftime_minutes(now) == ToString(now \div (TicksPerSecond * 60))

\* datetime.now().strftime('%Y%m%d%H%M%S'): the time cut to whole seconds
Strftime(now) == ToString(now \div TicksPerSecond)

\* datetime.now().isoformat(): the time with its sub-second part
Isoformat(now) == <<ToString(now \div TicksPerSecond), ".", ToString(now % TicksPerSecond)>>

\* f"TKT-{...}"
TicketId(now) == <<"TKT-", Strftime(now)>>

(***************************************************************************)
(* The ticket log: one line per record.  json.dumps writes a dict as one   *)
(* line of JSON text; json.loads gives the dict back for such a line and   *)
(* raises for any other text.                                              *)
(***************************************************************************)
JsonDumps(obj) == [json |-> TRUE, text |-> obj]

JsonParses(line) == line.json

JsonLoads(line) == line.text

\* a line that is empty after strip(): the scan passes over it
IsBlank(line) == ~line.json /\ line.text = ""

\* Python's None, as str() renders it
None == <<"None">>

\* dict.get(key)
Get(d, key) == IF key \in DOMAIN d THEN d[key] ELSE None

(***************************************************************************)
(* Tool 3: TicketEscalationTool._run.  now1 and now2 are the two readings  *)
(* of datetime.now(), io says how far the append to tickets.log gets.      *)
(* The value is what the call returns and what it leaves on disk.          *)
(***************************************************************************)
Severities == {"low", "medium", "high"}

\* open("tickets.log", ...) succeeds or raises
IoOutcomes == {"ok", "open_fails"}

NewTicket(summary, severity_level, now1, now2) ==
    [ticket_id |-> TicketId(now1),
     timestamp |-> Isoformat(now2),
     summary   |-> summary,
     severity  |-> severity_level,
     status    |-> "open"]

EscalatedMessage(ticket, severity_level, summary) ==
    <<"Ticket Escalated Successfully!", "Ticket ID: ">> \o ticket.ticket_id
      \o <<"Severity: ", Upper(severity_level), "Summary: ", summary, "Status: Open",
           "A Tier-2 support representative will contact you shortly.">>

\* the log opened with "w": the new line replaces the file
AppendLine_w(log, ticket) == <<JsonDumps(ticket)>>

\* with open("tickets.log", "a") as f: f.write(json.dumps(ticket) + "\n")
AppendLine(log, ticket) == Append(log, JsonDumps(ticket))

\* a tool that writes the record first and validates the severity afterwards
TicketEscalationRun_latecheck(summary, severity, now1, now2, io, exists, log) ==
    LET severity_level == Lower(severity)
        ticket == NewTicket(summary, severity_level, now1, now2)
    IN  IF io # "ok"
        THEN [raised |-> FALSE,
              content |-> <<"Error filing ticket: ", io>>,
              exists |-> exists, log |-> log]
        ELSE IF severity_level \notin Severities
        THEN [raised |-> FALSE,
              content |-> <<"Error: Invalid severity level '", severity_level, "'">>,
              exists |-> TRUE, log |-> AppendLine(log, ticket)]
        ELSE [raised |-> FALSE,
              content |-> EscalatedMessage(ticket, severity_level, summary),
              exists |-> TRUE, log |-> AppendLine(log, ticket)]

\* the append without its try ... except: a failing open propagates
TicketEscalationRun_notry(summary, severity, now1, now2, io, exists, log) ==
    LET severity_level == Lower(severity)
        ticket == NewTicket(summary, severity_level, now1, now2)
    IN  IF severity_level \notin Severities
        THEN [raised |-> FALSE,
              content |-> <<"Error: Invalid severity level '", severity_level, "'">>,
              exists |-> exists, log |-> log]
        ELSE IF io = "ok"
        THEN [raised |-> FALSE,
              content |-> EscalatedMessage(ticket, severity_level, summary),
              exists |-> TRUE, log |-> AppendLine(log, ticket)]
        ELSE [raised |-> TRUE, content |-> <<"OSError">>, exists |-> exists, log |-> log]

TicketEscalationRun(summary, severity, now1, now2, io, exists, log) ==
    LET severity_level == Lower(severity)
        ticket == NewTicket(summary, severity_level, now1, now2)
    IN  IF severity_level \notin Severities
        THEN [raised |-> FALSE,
              content |-> <<"Error: Invalid severity level '", severity_level, "'">>,
              exists |-> exists, log |-> log]
        ELSE IF io = "ok"
        THEN [raised |-> FALSE,
              content |-> EscalatedMessage(ticket, severity_level, summary),
              exists |-> TRUE, log |-> AppendLine(log, ticket)]
        ELSE [raised |-> FALSE,
              content |-> <<"Error filing ticket: ", io>>,
              exists |-> exists, log |-> log]

(***************************************************************************)
(* Tool 4: TicketLookupTool._run.  The scan goes through the lines in file *)
(* order and stops at the first one whose ticket_id equals the argument.   *)
(***************************************************************************)
TicketDetails(ticket) ==
    <<"Ticket Details:", "Ticket ID: ">> \o Get(ticket, "ticket_id")
      \o <<"Created At: ">> \o Get(ticket, "timestamp")
      \o <<"Severity: ", Get(ticket, "severity"),
           "Status: ", Get(ticket, "status"),
           "Summary: ", Get(ticket, "summary")>>

\* a scan that compares only the "TKT-" prefix of the ids
RECURSIVE ScanLog_loose(_, _, _)
ScanLog_loose(log, i, ticket_id) ==
    IF i > Len(log)
    THEN <<"No ticket found with ID ">> \o ticket_id \o <<".">>
    ELSE IF IsBlank(log[i])
    THEN ScanLog_loose(log, i + 1, ticket_id)
    ELSE IF ~JsonParses(log[i])
    THEN <<"Error reading ticket log: ", "JSONDecodeError">>
    ELSE IF Get(JsonLoads(log[i]), "ticket_id")[1] = ticket_id[1]
    THEN TicketDetails(JsonLoads(log[i]))
    ELSE ScanLog_loose(log, i + 1, ticket_id)

RECURSIVE ScanLog(_, _, _)
ScanLog(log, i, ticket_id) ==
    IF i > Len(log)
    THEN <<"No ticket found with ID ">> \o ticket_id \o <<".">>
    ELSE IF IsBlank(log[i])
    THEN ScanLog(log, i + 1, ticket_id)
    ELSE IF ~JsonParses(log[i])
    THEN <<"Error reading ticket log: ", "JSONDecodeError">>
    ELSE IF Get(JsonLoads(log[i]), "ticket_id") = ticket_id
    THEN TicketDetails(JsonLoads(log[i]))
    ELSE ScanLog(log, i + 1, ticket_id)

\* a scan that keeps going and answers with the last matching line
RECURSIVE ScanLogLast(_, _, _, _)
ScanLogLast(log, i, ticket_id, hit) ==
    IF i > Len(log)
    THEN IF hit = 0 THEN <<"No ticket found with ID ">> \o ticket_id \o <<".">>
         ELSE TicketDetails(JsonLoads(log[hit]))
    ELSE IF IsBlank(log[i])
    THEN ScanLogLast(log, i + 1, ticket_id, hit)
    ELSE IF ~JsonParses(log[i])
    THEN <<"Error reading ticket log: ", "JSONDecodeError">>
    ELSE IF Get(JsonLoads(log[i]), "ticket_id") = ticket_id
    THEN ScanLogLast(log, i + 1, ticket_id, i)
    ELSE ScanLogLast(log, i + 1, ticket_id, hit)

TicketLookupRun_last(ticket_id, io, exists, log) ==
    [raised |-> FALSE,
     content |-> IF ~exists THEN <<"No tickets found in the system.">>
                 ELSE IF io # "ok" THEN <<"Error reading ticket log: ", io>>
                 ELSE ScanLogLast(log, 1, ticket_id, 0),
     exists |-> exists, log |-> log]

\* a lookup that opens the log for appending and reading, without the
\* os.path.exists test in front
TicketLookupRun_create(ticket_id, io, exists, log) ==
    [raised |-> FALSE,
     content |-> IF io # "ok" THEN <<"Error reading ticket log: ", io>>
                 ELSE ScanLog(log, 1, ticket_id),
     exists |-> TRUE, log |-> log]

TicketLookupRun(ticket_id, io, exists, log) ==
    [raised |-> FALSE,
     content |-> IF ~exists THEN <<"No tickets found in the system.">>
                 ELSE IF io # "ok" THEN <<"Error reading ticket log: ", io>>
                 ELSE ScanLog(log, 1, ticket_id),
     exists |-> exists, log |-> log]

(***************************************************************************)
(* The two indices behind search_documentation, and the pricing table.     *)
(***************************************************************************)
\* NEBULA_DB = None / TEMP_USER_DB = None: there is no index object
NoDb == [present |-> FALSE, docs |-> <<>>]

\* a Chroma index holding the documents docs, in insertion order
Db(docs) == [present |-> TRUE, docs |-> docs]

\* the distance, in hundredths, between the embedding of a query and of a text
Distance(query, text) ==
    CASE text = "sync fails with error 500" -> 5
      [] text = "error 500: restart the sync service" -> 10
      [] text = "restart fixes error 500" -> 10
      [] text = "error 404: check the endpoint" -> 20
      [] text = "installing the agent" -> 30
      [] text = "billing and plans" -> 40
      [] OTHER -> 60

\* ingest.py: chunk i of the manual, tagged with its source and chunk_id
ManualChunk(i, text) ==
    [page_content |-> text,
     metadata |-> [source |-> "nebula_manual.txt", chunk_id |-> ToString(i), kb |-> "nebula"]]

\* doc = Document(page_content=text, metadata={"source": ..., "kb": "user_upload"})
UploadedDocument(text, source_name) ==
    [page_content |-> text, metadata |-> [source |-> source_name, kb |-> "user_upload"]]

\* doc.metadata.get(key, default)
MetadataGet(doc, key, default) ==
    IF key \in DOMAIN doc.metadata THEN doc.metadata[key] ELSE default

\* list.sort(key=lambda tup: tup[1]): ascending, and stable, so that equal
\* scores keep the order they had
RECURSIVE InsertByScore(_, _)
InsertByScore(sorted, x) ==
    IF sorted = <<>> THEN <<x>>
    ELSE IF sorted[Len(sorted)].score <= x.score THEN Append(sorted, x)
    ELSE Append(InsertByScore(SubSeq(sorted, 1, Len(sorted) - 1), x), sorted[Len(sorted)])

\* the results left in the order they were appended
SortByScore_unsorted(s) == s

RECURSIVE SortByScore(_)
SortByScore(s) ==
    IF s = <<>> THEN <<>>
    ELSE InsertByScore(SortByScore(SubSeq(s, 1, Len(s) - 1)), s[Len(s)])

\* results[:n]
Take(s, n) == SubSeq(s, 1, IF Len(s) < n THEN Len(s) ELSE n)

\* db.similarity_search_with_score(query, k): the k nearest documents, nearest
\* first; documents at the same distance come in insertion order
similarity_search_with_score(db, query, k) ==
    Take(SortByScore([i \in 1..Len(db.docs) |->
                        [doc |-> db.docs[i], score |-> Distance(query, db.docs[i].page_content)]]),
         k)

\* results.append((doc, score, kb_type)) for each hit
Tagged(hits, kb_type) ==
    [i \in 1..Len(hits) |-> [doc |-> hits[i].doc, score |-> hits[i].score, kb_type |-> kb_type]]

\* the results list of DocSearchTool._run at the test "if not results"
SearchResults(query, nebula, temp) ==
    Tagged(similarity_search_with_score(nebula, query, 3), "nebula")
      \o (IF temp.present THEN Tagged(similarity_search_with_score(temp, query, 3), "user")
          ELSE <<>>)

\* f"{score:.4f}" of a distance given in hundredths
Format4f(score) ==
    <<ToString(score \div 100), ".", ToString((score % 100) \div 10), ToString(score % 10), "00">>

\* one citation block
FormatResult(r) ==
    <<"[", IF r.kb_type = "nebula" THEN "NebulaSoft Manual" ELSE "Uploaded Document",
      " | Source: ", MetadataGet(r.doc, "source", "Unknown"),
      ", Chunk: ", MetadataGet(r.doc, "chunk_id", "N/A"), ", Score: ">>
      \o Format4f(r.score) \o <<"]", r.doc.page_content>>

\* "\n\n---\n\n".join(formatted_results)
RECURSIVE JoinResults(_)
JoinResults(rs) ==
    IF rs = <<>> THEN <<>>
    ELSE IF Len(rs) = 1 THEN FormatResult(rs[1])
    ELSE FormatResult(rs[1]) \o <<"---">> \o JoinResults(SubSeq(rs, 2, Len(rs)))

NoResultsMessage == <<"No relevant documentation was found for this query.">>

DbUnavailableMessage ==
    <<"Error: NebulaSoft documentation database is not available. Please run ingest.py to build the vector database.">>

\* a search that, with NEBULA_DB None, still queries the session index
DocSearchRun_sessiononly(query, q, nebula, temp) ==
    IF ~nebula.present /\ ~temp.present THEN DbUnavailableMessage
    ELSE IF q # "ok" THEN <<"Error searching documentation: ", q>>
    ELSE LET results == (IF nebula.present
                         THEN Tagged(similarity_search_with_score(nebula, query, 3), "nebula")
                         ELSE <<>>)
                          \o (IF temp.present
                              THEN Tagged(similarity_search_with_score(temp, query, 3), "user")
                              ELSE <<>>)
         IN  IF results = <<>> THEN NoResultsMessage
             ELSE JoinResults(Take(SortByScore(results), 5))

\* a search without the test "if not results": joining no blocks gives ""
DocSearchRun_nosentinel(query, q, nebula, temp) ==
    IF ~nebula.present THEN DbUnavailableMessage
    ELSE IF q # "ok" THEN <<"Error searching documentation: ", q>>
    ELSE JoinResults(Take(SortByScore(SearchResults(query, nebula, temp)), 5))

\* a search without the test "if NEBULA_DB is None": the query on None raises
\* AttributeError, which the except clause reports
DocSearchRun_nonetest(query, q, nebula, temp) ==
    IF ~nebula.present THEN <<"Error searching documentation: ", "AttributeError">>
    ELSE IF q # "ok" THEN <<"Error searching documentation: ", q>>
    ELSE LET results == SearchResults(query, nebula, temp)
         IN  IF results = <<>> THEN NoResultsMessage
             ELSE JoinResults(Take(SortByScore(results), 5))

\* DocSearchTool._run(query); q tells whether the index query raises
DocSearchRun(query, q, nebula, temp) ==
    IF ~nebula.present THEN DbUnavailableMessage
    ELSE IF q # "ok" THEN <<"Error searching documentation: ", q>>
    ELSE LET results == SearchResults(query, nebula, temp)
         IN  IF results = <<>> THEN NoResultsMessage
             ELSE JoinResults(Take(SortByScore(results), 5))

\* a table that charges the pro plan the basic rate
PRICING_flat == [basic |-> 10, pro |-> 10, enterprise |-> 40]

\* PricingCalculatorTool.PRICING
PRICING == [basic |-> 10, pro |-> 20, enterprise |-> 40]

\* str.capitalize() on a lower-cased plan name
Capitalize(s) ==
    CASE s = "basic" -> "Basic"
      [] s = "pro" -> "Pro"
      [] s = "enterprise" -> "Enterprise"
      [] OTHER -> s

\* a calculator without the test "if plan_type not in self.PRICING", pricing
\* an unknown plan at nothing
PricingCalculatorRun_nocheck(number_of_users, plan) ==
    LET plan_type == Lower(plan)
        price_per_user == IF plan_type \in DOMAIN PRICING THEN PRICING[plan_type] ELSE 0
    IN  <<"Pricing Calculation:", "Plan: ", Capitalize(plan_type),
          "Number of Users: ", ToString(number_of_users),
          "Price per User: $", ToString(price_per_user), "/month",
          "Total Monthly Cost: $", ToString(number_of_users * price_per_user), "/month">>

\* PricingCalculatorTool._run(number_of_users, plan_type)
PricingCalculatorRun(number_of_users, plan) ==
    LET plan_type == Lower(plan)
    IN  IF plan_type \notin DOMAIN PRICING
        THEN <<"Error: Invalid plan type '", plan_type,
               "'. Valid options are: basic, pro, enterprise">>
        ELSE LET price_per_user == PRICING[plan_type]
                 total_cost == number_of_users * price_per_user
             IN  <<"Pricing Calculation:", "Plan: ", Capitalize(plan_type),
                   "Number of Users: ", ToString(number_of_users),
                   "Price per User: $", ToString(price_per_user), "/month",
                   "Total Monthly Cost: $", ToString(total_cost), "/month">>

(***************************************************************************)
(* The registered tool set and the dispatch of one requested call.         *)
(***************************************************************************)
\* get_all_tools(): the tools' names, in list order
tools == <<"search_documentation", "calculate_pricing", "escalate_ticket", "lookup_ticket">>

\* the keyword parameters of each tool's _run
Params(name) ==
    CASE name = "search_documentation" -> {"query"}
      [] name = "calculate_pricing" -> {"number_of_users", "plan_type"}
      [] name = "escalate_ticket" -> {"summary", "severity_level"}
      [] name = "lookup_ticket" -> {"ticket_id"}

\* for tool in tools: if tool.name == tool_name: ... break
\* the position of the first tool with exactly that name, 0 when there is none
RECURSIVE FindTool(_, _)
FindTool(tool_name, i) ==
    IF i > Len(tools) THEN 0
    ELSE IF tools[i] = tool_name THEN i
    ELSE FindTool(tool_name, i + 1)

\* tool._run(**tool_args): a call whose keywords are not the parameters of
\* _run raises TypeError before the tool's body runs
RunTool(name, args, now1, now2, io, exists, log) ==
    IF DOMAIN args # Params(name)
    THEN [raised |-> TRUE, content |-> <<"TypeError">>, exists |-> exists, log |-> log]
    ELSE CASE name = "escalate_ticket" ->
                TicketEscalationRun(args.summary, args.severity_level, now1, now2, io, exists, log)
           [] name = "lookup_ticket" ->
                TicketLookupRun(args.ticket_id, io, exists, log)
           [] name = "search_documentation" ->
                [raised |-> FALSE,
                 content |-> DocSearchRun(args.query, IF io = "ok" THEN "ok" ELSE "query_fails",
                                          NEBULA_DB, TEMP_USER_DB),
                 exists |-> exists, log |-> log]
           [] name = "calculate_pricing" ->
                [raised |-> FALSE,
                 content |-> PricingCalculatorRun(args.number_of_users, args.plan_type),
                 exists |-> exists, log |-> log]

\* the text of the except clause at the dispatch site
ToolErrorText(v, e) ==
    IF v = "repl" THEN <<"Error executing tool: ">> \o e ELSE <<"Tool error: ">> \o e

\* the call of _run without its try ... except
DispatchResult_notry(v, call, now1, now2, io, exists, log) ==
    LET k == FindTool(call.name, 1)
        r == RunTool(call.name, call.args, now1, now2, io, exists, log)
    IN  IF k = 0
        THEN [isNone |-> TRUE, ran |-> FALSE, propagates |-> FALSE, text |-> <<>>,
              exists |-> exists, log |-> log]
        ELSE [isNone |-> FALSE, ran |-> TRUE, propagates |-> r.raised,
              text |-> r.content, exists |-> r.exists, log |-> r.log]

\* tool_result after the search for the tool: its value, or Python's None.
\* The call of _run sits in try ... except Exception, so nothing a tool
\* raises leaves the dispatch site (propagates is FALSE).
DispatchResult(v, call, now1, now2, io, exists, log) ==
    LET k == FindTool(call.name, 1)
        r == RunTool(call.name, call.args, now1, now2, io, exists, log)
    IN  IF k = 0
        THEN [isNone |-> TRUE, ran |-> FALSE, propagates |-> FALSE, text |-> <<>>,
              exists |-> exists, log |-> log]
        ELSE [isNone |-> FALSE, ran |-> TRUE, propagates |-> FALSE,
              text |-> IF r.raised THEN ToolErrorText(v, r.content) ELSE r.content,
              exists |-> r.exists, log |-> r.log]

\* the calls taken from the end of the list
CurrentCall_rev(calls, idx) == calls[Len(calls) - idx + 1]

\* for tool_call in response.tool_calls: the call the for loop is at
CurrentCall(calls, idx) == calls[idx]

\* agent.py: if tool_result is None: tool_result = f"Tool {tool_name} not found"
\* app.py has no such branch
NotFoundFallback(v, call, tool_result) ==
    IF v = "repl" /\ tool_result.isNone
    THEN [tool_result EXCEPT !.isNone = FALSE, !.text = <<"Tool ", call.name, " not found">>]
    ELSE tool_result

\* str(tool_result)
Str(tool_result) == IF tool_result.isNone THEN <<"None">> ELSE tool_result.text

(***************************************************************************)
(* Turns of the conversation history.                                      *)
(***************************************************************************)
SystemMessage(content) ==
    [type |-> "system", content |-> content, tool_calls |-> <<>>, tool_call_id |-> ""]

HumanMessage(content) ==
    [type |-> "human", content |-> content, tool_calls |-> <<>>, tool_call_id |-> ""]

AIMessage(content, calls) ==
    [type |-> "ai", content |-> content, tool_calls |-> calls, tool_call_id |-> ""]

\* a tool-result turn that drops the call id
ToolMessage_noid(content, id) ==
    [type |-> "tool", content |-> content, tool_calls |-> <<>>, tool_call_id |-> ""]

ToolMessage(content, id) ==
    [type |-> "tool", content |-> content, tool_calls |-> <<>>, tool_call_id |-> id]

(***************************************************************************)
(* agent.py: sentiment detection and the per-message system prompt.  A     *)
(* user text is the sequence of its words.                                 *)
(***************************************************************************)
ANGRY_KEYWORDS == {"angry", "frustrated", "terrible", "awful", "hate", "worst", "useless", "horrible"}

HAPPY_KEYWORDS == {"great", "awesome", "excellent", "love", "amazing", "fantastic", "wonderful", "perfect"}

detect_sentiment(user_input) ==
    IF \E i \in 1..Len(user_input) : Lower(user_input[i]) \in ANGRY_KEYWORDS THEN "angry"
    ELSE IF \E i \in 1..Len(user_input) : Lower(user_input[i]) \in HAPPY_KEYWORDS THEN "happy"
    ELSE "neutral"

\* agent.py create_system_prompt(sentiment): base persona plus the tone
create_system_prompt(sentiment) ==
    <<"base_persona",
      CASE sentiment = "angry" -> "tone: apologetic"
        [] sentiment = "happy" -> "tone: enthusiastic"
        [] OTHER -> "tone: professional">>

\* app.py create_system_prompt(): one fixed text
web_system_prompt == <<"web_persona">>

\* the message returned when the iteration budget is used up
ExhaustionMessage(v) ==
    IF v = "repl"
    THEN <<"I apologize, but I've reached the maximum number of iterations. Let me escalate this to Tier-2 support.">>
    ELSE <<"I apologize, but I couldn't resolve this automatically. I will escalate this to Tier-2 support.">>

(***************************************************************************)
(* History variables shared by the loop and by direct tool calls.          *)
(***************************************************************************)
NoCall == [seq |-> 0, tool |-> "", args |-> <<>>, io |-> "ok", raised |-> FALSE, content |-> <<>>]

Succeeded(name, r) ==
    name = "escalate_ticket" /\ ~r.raised /\ r.content[1] = "Ticket Escalated Successfully!"

\* the ticket id printed in a confirmation: the text after "Ticket ID: "
ReturnedId(content) == <<content[3], content[4]>>

\* at: what datetime.now() read when the ticket was filed
Recorded(f, name, args, r, now) ==
    IF Succeeded(name, r)
    THEN Append(f, [ticket_id |-> ReturnedId(r.content), summary |-> args.summary,
                    severity_level |-> args.severity_level, at |-> now])
    ELSE f

(***************************************************************************)
(* What the environment supplies: user texts and model replies.            *)
(***************************************************************************)
ReplInputs == {<<>>, <<"quit">>, <<"hi">>, <<"this", "is", "AWFUL">>}

WebInputs == {<<"hi">>}

\* the tool calls a model reply may carry: an exact tool name with fitting
\* arguments, a name that differs from a registered one by case only, and a
\* registered tool called with a keyword its _run does not take
FileTicket == [name |-> "escalate_ticket", args |-> [summary |-> "db down", severity_level |-> "high"]]

WrongName == [name |-> "Escalate_Ticket", args |-> [summary |-> "db down", severity_level |-> "high"]]

WrongKeyword == [name |-> "lookup_ticket", args |-> [id |-> "TKT-1"]]

ReplyMenu == { <<FileTicket>>, <<WrongName>>, <<WrongKeyword, FileTicket>> }

\* a reply's calls get ids no earlier call of the session has
WithIds(cs, base) ==
    [i \in 1..Len(cs) |-> [name |-> cs[i].name, args |-> cs[i].args, id |-> ToString(base + i)]]

(***************************************************************************)
(* The session starts: agent.py main() before its first input(), app.py    *)
(* after the first script run has initialised st.session_state.            *)
(***************************************************************************)
InitTools ==
    /\ clock = 0
    /\ logExists = FALSE
    /\ ticketLog = <<>>
    /\ lastCall = NoCall
    /\ filed = <<>>
    /\ ops = 0

\* the index ingest.py builds from the manual, chunk by chunk
ManualIndex ==
    Db(<<ManualChunk(0, "installing the agent"),
         ManualChunk(1, "error 500: restart the sync service"),
         ManualChunk(2, "billing and plans"),
         ManualChunk(3, "error 404: check the endpoint")>>)

NoIngest == [doc |-> UploadedDocument("", ""), e |-> "none"]

\* the manual has been ingested and nothing has been uploaded
InitKb ==
    /\ NEBULA_DB = ManualIndex
    /\ TEMP_USER_DB = NoDb
    /\ ingests = 0
    /\ lastIngest = NoIngest
    /\ uploaded_sources = [s \in Sessions |-> <<>>]
    /\ searcher = ""

Init ==
    /\ variant \in {"repl", "web"}
    /\ state = "IDLE"
    /\ messages = IF variant = "web" THEN <<SystemMessage(web_system_prompt)>> ELSE <<>>
    /\ iteration = 0
    /\ tool_calls = <<>>
    /\ callIdx = 0
    /\ result = <<>>
    /\ shown = <<>>
    /\ inputs = 0
    /\ requested = 0
    /\ modelCalls = 0
    /\ toolRuns = 0
    /\ dispatched = 0
    /\ runStart = 0
    /\ InitTools
    /\ InitKb

\* run_agent_with_tools is entered: iteration = 0
EnterLoop ==
    /\ state' = "AWAIT_MODEL"
    /\ iteration' = 0
    /\ tool_calls' = <<>>
    /\ callIdx' = 0
    /\ result' = <<>>
    /\ modelCalls' = 0
    /\ toolRuns' = 0
    /\ dispatched' = 0
    /\ runStart' = Len(messages')

(***************************************************************************)
(* agent.py main(): one pass of the while True loop up to the call of      *)
(* run_agent_with_tools, which builds a fresh history.                     *)
(***************************************************************************)
ReplInput(user_input) ==
    /\ variant = "repl"
    /\ state = "IDLE"
    /\ inputs < MaxInputs
    /\ inputs' = inputs + 1
    /\ IF user_input = <<>>
       THEN UNCHANGED <<state, messages, iteration, tool_calls, callIdx, result, shown,
                        modelCalls, toolRuns, dispatched, runStart>>
       ELSE IF Len(user_input) = 1 /\ Lower(user_input[1]) \in {"quit", "exit", "bye"}
       THEN /\ state' = "EXITED"
            /\ shown' = <<"Thank you for contacting NebulaSoft support. See you next time!">>
            /\ UNCHANGED <<messages, iteration, tool_calls, callIdx, result,
                           modelCalls, toolRuns, dispatched, runStart>>
       ELSE /\ messages' = <<SystemMessage(create_system_prompt(detect_sentiment(user_input))),
                             HumanMessage(user_input)>>
            /\ EnterLoop
            /\ UNCHANGED shown
    /\ UNCHANGED <<variant, requested>>
    /\ UNCHANGED toolVars
    /\ UNCHANGED kbVars

\* the system prompt added again with every user message
WebHistory_regen(history, user_input) ==
    history \o <<SystemMessage(web_system_prompt), HumanMessage(user_input)>>

\* st.session_state.messages.append(HumanMessage(content=user_input))
WebHistory(history, user_input) == Append(history, HumanMessage(user_input))

\* app.py chat input handler up to the call of run_agent_with_tools
WebInput(user_input) ==
    /\ variant = "web"
    /\ state = "IDLE"
    /\ inputs < MaxInputs
    /\ inputs' = inputs + 1
    /\ messages' = WebHistory(messages, user_input)
    /\ EnterLoop
    /\ UNCHANGED <<variant, shown, requested>>
    /\ UNCHANGED toolVars
    /\ UNCHANGED kbVars

(***************************************************************************)
(* run_agent_with_tools, one step at a time.  AWAIT_MODEL is the head of   *)
(* the while loop, DISPATCH_TOOLS the body of the for loop.                *)
(***************************************************************************)
\* a reply without tool calls that does not end the loop
ModelAnswers_noreturn(content) ==
    /\ state = "AWAIT_MODEL"
    /\ iteration < max_iterations
    /\ iteration' = iteration + 1
    /\ modelCalls' = modelCalls + 1
    /\ messages' = Append(messages, AIMessage(content, <<>>))
    /\ state' = "AWAIT_MODEL"
    /\ result' = content
    /\ UNCHANGED <<variant, tool_calls, callIdx, shown, inputs, requested, toolRuns, dispatched,
                   runStart>>
    /\ UNCHANGED toolVars
    /\ UNCHANGED kbVars

\* llm_with_tools.invoke(messages) returns a reply without tool calls
ModelAnswers(content) ==
    /\ state = "AWAIT_MODEL"
    /\ iteration < max_iterations
    /\ iteration' = iteration + 1
    /\ modelCalls' = modelCalls + 1
    /\ messages' = Append(messages, AIMessage(content, <<>>))
    /\ state' = "DONE"
    /\ result' = content
    /\ UNCHANGED <<variant, tool_calls, callIdx, shown, inputs, requested, toolRuns, dispatched,
                   runStart>>
    /\ UNCHANGED toolVars
    /\ UNCHANGED kbVars

\* a loop that tests the iteration cap before it dispatches: the calls of the
\* reply that uses up the last iteration are left unexecuted
ModelRequests_capfirst(cs) ==
    /\ state = "AWAIT_MODEL"
    /\ iteration < max_iterations
    /\ requested + Len(cs) <= MaxRequested
    /\ requested' = requested + Len(cs)
    /\ iteration' = iteration + 1
    /\ modelCalls' = modelCalls + 1
    /\ messages' = Append(messages, AIMessage(<<>>, WithIds(cs, requested)))
    /\ IF iteration + 1 < max_iterations
       THEN tool_calls' = WithIds(cs, requested) /\ callIdx' = 1 /\ state' = "DISPATCH_TOOLS"
       ELSE UNCHANGED <<tool_calls, callIdx>> /\ state' = "AWAIT_MODEL"
    /\ UNCHANGED <<variant, result, shown, inputs, toolRuns, dispatched, runStart>>
    /\ UNCHANGED toolVars
    /\ UNCHANGED kbVars

\* llm_with_tools.invoke(messages) returns a reply that requests tool calls
ModelRequests(cs) ==
    /\ state = "AWAIT_MODEL"
    /\ iteration < max_iterations
    /\ requested + Len(cs) <= MaxRequested
    /\ requested' = requested + Len(cs)
    /\ iteration' = iteration + 1
    /\ modelCalls' = modelCalls + 1
    /\ messages' = Append(messages, AIMessage(<<>>, WithIds(cs, requested)))
    /\ tool_calls' = WithIds(cs, requested)
    /\ callIdx' = 1
    /\ state' = "DISPATCH_TOOLS"
    /\ UNCHANGED <<variant, result, shown, inputs, toolRuns, dispatched, runStart>>
    /\ UNCHANGED toolVars
    /\ UNCHANGED kbVars

\* llm_with_tools.invoke(messages) raises: the exception leaves the loop
ModelFails ==
    /\ state = "AWAIT_MODEL"
    /\ iteration < max_iterations
    /\ iteration' = iteration + 1
    /\ modelCalls' = modelCalls + 1
    /\ state' = "RAISED"
    /\ UNCHANGED <<variant, messages, tool_calls, callIdx, result, shown, inputs, requested,
                   toolRuns, dispatched, runStart>>
    /\ UNCHANGED toolVars
    /\ UNCHANGED kbVars

\* the while condition fails: the fixed message is returned
Exhaust ==
    /\ state = "AWAIT_MODEL"
    /\ ~(iteration < max_iterations)
    /\ state' = "EXHAUSTED"
    /\ result' = ExhaustionMessage(variant)
    /\ UNCHANGED <<variant, messages, iteration, tool_calls, callIdx, shown, inputs, requested,
                   modelCalls, toolRuns, dispatched, runStart>>
    /\ UNCHANGED toolVars
    /\ UNCHANGED kbVars

\* one pass of the for loop over response.tool_calls
DispatchTool(io) ==
    /\ state = "DISPATCH_TOOLS"
    /\ LET call == CurrentCall(tool_calls, callIdx)
           found == DispatchResult(variant, call, clock, clock, io, logExists, ticketLog)
           tool_result == NotFoundFallback(variant, call, found)
           r == RunTool(call.name, call.args, clock, clock, io, logExists, ticketLog)
       IN  /\ logExists' = tool_result.exists
           /\ ticketLog' = tool_result.log
           /\ IF found.ran
              THEN /\ toolRuns' = toolRuns + 1
                   /\ filed' = Recorded(filed, call.name, call.args, r, clock)
              ELSE UNCHANGED <<toolRuns, filed>>
           /\ IF found.propagates
              THEN /\ state' = "RAISED"
                   /\ UNCHANGED <<messages, dispatched, callIdx>>
              ELSE /\ messages' = Append(messages, ToolMessage(Str(tool_result), call.id))
                   /\ dispatched' = dispatched + 1
                   /\ IF callIdx < Len(tool_calls)
                      THEN callIdx' = callIdx + 1 /\ state' = "DISPATCH_TOOLS"
                      ELSE callIdx' = 0 /\ state' = "AWAIT_MODEL"
    /\ UNCHANGED <<variant, iteration, tool_calls, result, shown, inputs, requested, modelCalls,
                   runStart, clock, lastCall, ops>>
    /\ UNCHANGED kbVars

(***************************************************************************)
(* The presentation layer after run_agent_with_tools has ended.            *)
(***************************************************************************)
Apology == <<"I apologize, but I encountered an error. Let me escalate this to Tier-2 support.">>

\* agent.py main(): print(response)
ReplShow ==
    /\ variant = "repl"
    /\ state \in {"DONE", "EXHAUSTED"}
    /\ shown' = result
    /\ state' = "IDLE"
    /\ UNCHANGED <<variant, messages, iteration, tool_calls, callIdx, result, inputs, requested,
                   modelCalls, toolRuns, dispatched, runStart>>
    /\ UNCHANGED toolVars
    /\ UNCHANGED kbVars

\* agent.py main(): except Exception
ReplCatch ==
    /\ variant = "repl"
    /\ state = "RAISED"
    /\ shown' = Apology
    /\ state' = "IDLE"
    /\ UNCHANGED <<variant, messages, iteration, tool_calls, callIdx, result, inputs, requested,
                   modelCalls, toolRuns, dispatched, runStart>>
    /\ UNCHANGED toolVars
    /\ UNCHANGED kbVars

\* app.py: st.chat_message("assistant").write(response); st.rerun()
WebShow ==
    /\ variant = "web"
    /\ state \in {"DONE", "EXHAUSTED"}
    /\ shown' = result
    /\ state' = "IDLE"
    /\ UNCHANGED <<variant, messages, iteration, tool_calls, callIdx, result, inputs, requested,
                   modelCalls, toolRuns, dispatched, runStart>>
    /\ UNCHANGED toolVars
    /\ UNCHANGED kbVars

\* app.py has no handler around run_agent_with_tools: the exception ends the
\* script run, the framework prints it, and the session state stays as it is
WebUncaught ==
    /\ variant = "web"
    /\ state = "RAISED"
    /\ shown' = <<"Traceback">>
    /\ state' = "IDLE"
    /\ UNCHANGED <<variant, messages, iteration, tool_calls, callIdx, result, inputs, requested,
                   modelCalls, toolRuns, dispatched, runStart>>
    /\ UNCHANGED toolVars
    /\ UNCHANGED kbVars

Next ==
    \/ \E user_input \in ReplInputs : ReplInput(user_input)
    \/ \E user_input \in WebInputs : WebInput(user_input)
    \/ ModelAnswers(<<"answer">>)
    \/ \E cs \in ReplyMenu : ModelRequests(cs)
    \/ ModelFails
    \/ Exhaust
    \/ \E io \in IoOutcomes : DispatchTool(io)
    \/ ReplShow
    \/ ReplCatch
    \/ WebShow
    \/ WebUncaught

Spec == Init /\ [][Next]_vars

(***************************************************************************)
(* The ticket tools called directly, as test_tools.py calls them, while    *)
(* time passes between the calls.                                          *)
(***************************************************************************)
Summaries == {"db down", "slow sync"}

SeverityArgs == {"high", "HIGH", "urgent"}

\* the ids a caller may ask for: every id the clock can produce, and one no ticket has
LookupIds == {TicketId(t) : t \in 0..MaxClock} \cup {<<"TKT-", "19990101000000">>}

ToolInit ==
    /\ variant = "repl"
    /\ state = "IDLE"
    /\ messages = <<>>
    /\ iteration = 0
    /\ tool_calls = <<>>
    /\ callIdx = 0
    /\ result = <<>>
    /\ shown = <<>>
    /\ inputs = 0
    /\ requested = 0
    /\ modelCalls = 0
    /\ toolRuns = 0
    /\ dispatched = 0
    /\ runStart = 0
    /\ clock = 0
    /\ logExists \in BOOLEAN
    /\ ticketLog = <<>>
    /\ lastCall = NoCall
    /\ filed = <<>>
    /\ ops = 0
    /\ InitKb

\* the wall clock advances
Tick ==
    /\ clock < MaxClock
    /\ clock' = clock + 1
    /\ UNCHANGED <<logExists, ticketLog, lastCall, filed, ops>>
    /\ UNCHANGED loopVars
    /\ UNCHANGED kbVars

\* a direct call of tool._run with keyword arguments args
DirectCall(name, args, io) ==
    /\ ops < MaxOps
    /\ ops' = ops + 1
    /\ LET r == RunTool(name, args, clock, clock, io, logExists, ticketLog)
       IN  /\ logExists' = r.exists
           /\ ticketLog' = r.log
           /\ lastCall' = [seq |-> lastCall.seq + 1, tool |-> name, args |-> args,
                           io |-> io, raised |-> r.raised, content |-> r.content]
           /\ filed' = Recorded(filed, name, args, r, clock)
    /\ UNCHANGED clock
    /\ UNCHANGED loopVars
    /\ UNCHANGED kbVars

\* TicketEscalationTool()._run(summary=..., severity_level=...)
Escalate(summary, severity_level, io) ==
    DirectCall("escalate_ticket", [summary |-> summary, severity_level |-> severity_level], io)

\* TicketLookupTool()._run(ticket_id=...)
Lookup(ticket_id, io) ==
    DirectCall("lookup_ticket", [ticket_id |-> ticket_id], io)

ToolNext ==
    \/ Tick
    \/ \E summary \in Summaries, severity_level \in SeverityArgs, io \in IoOutcomes :
          Escalate(summary, severity_level, io)
    \/ \E ticket_id \in LookupIds, io \in IoOutcomes : Lookup(ticket_id, io)

ToolSpec == ToolInit /\ [][ToolNext]_vars

(***************************************************************************)
(* The ticket log as a file other writers reach too: besides the tool's    *)
(* own appends, a line that is not a JSON record, or a blank line, can be  *)
(* on disk when lookup_ticket reads the file.                              *)
(***************************************************************************)
ForeignLines == {[json |-> FALSE, text |-> "not json"], [json |-> FALSE, text |-> ""]}

\* the lines of the log that json.dumps did not write
ForeignCount(log) == Cardinality({k \in 1..Len(log) : ~JsonParses(log[k])})

\* something other than escalate_ticket appends a line to tickets.log
ForeignWrite(line) ==
    /\ ForeignCount(ticketLog) < MaxForeign
    /\ logExists' = TRUE
    /\ ticketLog' = Append(ticketLog, line)
    /\ UNCHANGED <<clock, lastCall, filed, ops>>
    /\ UNCHANGED loopVars
    /\ UNCHANGED kbVars

SharedLogNext ==
    \/ Tick
    \/ \E summary \in Summaries : Escalate(summary, "high", "ok")
    \/ \E ticket_id \in LookupIds : Lookup(ticket_id, "ok")
    \/ \E line \in ForeignLines : ForeignWrite(line)

SharedLogSpec == ToolInit /\ [][SharedLogNext]_vars

(***************************************************************************)
(* Uploads and searches: ingest_user_document and search_documentation     *)
(* called directly against a base index that is absent, empty or built.    *)
(***************************************************************************)
\* the session starts with every loop variable at rest
LoopIdle ==
    /\ variant = "repl"
    /\ state = "IDLE"
    /\ messages = <<>>
    /\ iteration = 0
    /\ tool_calls = <<>>
    /\ callIdx = 0
    /\ result = <<>>
    /\ shown = <<>>
    /\ inputs = 0
    /\ requested = 0
    /\ modelCalls = 0
    /\ toolRuns = 0
    /\ dispatched = 0
    /\ runStart = 0

\* what the Chroma(...) call at import time can leave in NEBULA_DB: None when
\* it raised, an empty collection when ingest.py never ran, else the manual
BaseIndexes ==
    {NoDb, Db(<<>>), Db(<<ManualChunk(1, "error 500: restart the sync service")>>), ManualIndex}

\* the arguments of ingest_user_document: raw text, or the path of a file;
\* source_name "" stands for the default None
Uploads ==
    {[input_data |-> "sync fails with error 500", is_path |-> FALSE, source_name |-> ""],
     [input_data |-> "notes.txt", is_path |-> TRUE, source_name |-> ""],
     [input_data |-> "holiday schedule", is_path |-> FALSE, source_name |-> "hr.txt"]}

\* load_text_from_file(file_path)
load_text_from_file(file_path) ==
    IF file_path = "notes.txt" THEN "restart fixes error 500" ELSE "Unsupported file type: "

EmbedOutcomes == {"ok", "embed_fails"}

\* the document ingest_user_document builds from its arguments
IngestedDocument(u) ==
    IF u.is_path
    THEN UploadedDocument(load_text_from_file(u.input_data),
                          IF u.source_name # "" THEN u.source_name ELSE u.input_data)
    ELSE UploadedDocument(u.input_data,
                          IF u.source_name # "" THEN u.source_name ELSE "user_provided_text.txt")

\* the session index without the test "if TEMP_USER_DB is None"
StoreDocument_fresh(temp, doc) == Db(<<doc>>)

\* if TEMP_USER_DB is None: Chroma.from_documents([doc]) else: add_documents([doc])
StoreDocument(temp, doc) ==
    IF ~temp.present THEN Db(<<doc>>) ELSE Db(Append(temp.docs, doc))

\* ingest_user_document(input_data, source_name); e tells whether embedding
\* the document raises, which leaves the global as it was
Ingest(u, e) ==
    /\ ingests < MaxIngests
    /\ ingests' = ingests + 1
    /\ lastIngest' = [doc |-> IngestedDocument(u), e |-> e]
    /\ TEMP_USER_DB' = IF e = "ok" THEN StoreDocument(TEMP_USER_DB, IngestedDocument(u))
                       ELSE TEMP_USER_DB
    /\ UNCHANGED <<NEBULA_DB, uploaded_sources, searcher>>
    /\ UNCHANGED loopVars
    /\ UNCHANGED toolVars

Queries == {"error 500"}

\* DocSearchTool()._run(query=...)
Search(query, io) ==
    DirectCall("search_documentation", [query |-> query], io)

KbInit ==
    /\ LoopIdle
    /\ InitTools
    /\ NEBULA_DB \in BaseIndexes
    /\ TEMP_USER_DB = NoDb
    /\ ingests = 0
    /\ lastIngest = NoIngest
    /\ uploaded_sources = [s \in Sessions |-> <<>>]
    /\ searcher = ""

KbNext ==
    \/ \E u \in Uploads, e \in EmbedOutcomes : Ingest(u, e)
    \/ \E query \in Queries, io \in IoOutcomes : Search(query, io)

KbSpec == KbInit /\ [][KbNext]_vars

(***************************************************************************)
(* calculate_pricing called directly, as test_pricing calls it.            *)
(***************************************************************************)
PlanArgs == {"basic", "pro", "enterprise", "PRO", "Gold", "premium"}

\* PricingCalculatorTool()._run(number_of_users=..., plan_type=...)
Price(number_of_users, plan_type) ==
    DirectCall("calculate_pricing",
               [number_of_users |-> number_of_users, plan_type |-> plan_type], "ok")

PricingInit ==
    /\ LoopIdle
    /\ InitTools
    /\ InitKb

PricingNext ==
    \E number_of_users \in 1..MaxUsers, plan_type \in PlanArgs : Price(number_of_users, plan_type)

PricingSpec == PricingInit /\ [][PricingNext]_vars

(***************************************************************************)
(* The four tools called directly while their resources fail: the index    *)
(* query raises, tickets.log cannot be opened, or holds a foreign line.    *)
(***************************************************************************)
FailureInit ==
    /\ LoopIdle
    /\ clock = 0
    /\ logExists \in BOOLEAN
    /\ ticketLog = <<>>
    /\ lastCall = NoCall
    /\ filed = <<>>
    /\ ops = 0
    /\ NEBULA_DB \in {NoDb, ManualIndex}
    /\ TEMP_USER_DB = NoDb
    /\ ingests = 0
    /\ lastIngest = NoIngest
    /\ uploaded_sources = [s \in Sessions |-> <<>>]
    /\ searcher = ""

FailureNext ==
    \/ \E severity_level \in {"high", "urgent"}, io \in IoOutcomes :
          Escalate("db down", severity_level, io)
    \/ \E ticket_id \in {TicketId(0), <<"TKT-", "19990101000000">>}, io \in IoOutcomes :
          Lookup(ticket_id, io)
    \/ \E line \in ForeignLines : ForeignWrite(line)
    \/ \E query \in Queries, io \in IoOutcomes : Search(query, io)
    \/ \E plan_type \in {"pro", "Gold"} : Price(10, plan_type)

FailureSpec == FailureInit /\ [][FailureNext]_vars

(***************************************************************************)
(* Several browser sessions served by one Streamlit process: each has its  *)
(* own st.session_state, all of them import the one tools module.          *)
(***************************************************************************)
\* the files a user may drop on the uploader
UploadedFiles ==
    {[name |-> "notes.txt", text |-> "restart fixes error 500"],
     [name |-> "hr.txt", text |-> "holiday schedule"]}

\* the names in a session's uploaded_sources list
SourceNames(list) == {list[i] : i \in 1..Len(list)}

\* app.py, "if uploaded_file:": a file not yet in this session's
\* uploaded_sources is ingested and its name is remembered; an ingest that
\* raises ends the script run before the name is appended
Upload(s, f, e) ==
    /\ ingests < MaxIngests
    /\ f.name \notin SourceNames(uploaded_sources[s])
    /\ ingests' = ingests + 1
    /\ LET doc == IngestedDocument([input_data |-> f.text, is_path |-> FALSE,
                                     source_name |-> f.name])
       IN  /\ lastIngest' = [doc |-> doc, e |-> e]
           /\ TEMP_USER_DB' = IF e = "ok" THEN StoreDocument(TEMP_USER_DB, doc)
                               ELSE TEMP_USER_DB
    /\ uploaded_sources' = IF e = "ok"
                           THEN [uploaded_sources EXCEPT ![s] = Append(@, f.name)]
                           ELSE uploaded_sources
    /\ UNCHANGED <<NEBULA_DB, searcher>>
    /\ UNCHANGED loopVars
    /\ UNCHANGED toolVars

\* a chat message of session s makes the model call search_documentation
SessionSearch(s, query, io) ==
    /\ ops < MaxOps
    /\ ops' = ops + 1
    /\ LET r == RunTool("search_documentation", [query |-> query], clock, clock, io,
                        logExists, ticketLog)
       IN  lastCall' = [seq |-> lastCall.seq + 1, tool |-> "search_documentation",
                        args |-> [query |-> query], io |-> io, raised |-> r.raised,
                        content |-> r.content]
    /\ searcher' = s
    /\ UNCHANGED <<NEBULA_DB, TEMP_USER_DB, ingests, lastIngest, uploaded_sources>>
    /\ UNCHANGED <<clock, logExists, ticketLog, filed>>
    /\ UNCHANGED loopVars

SessionInit ==
    /\ LoopIdle
    /\ InitTools
    /\ InitKb

SessionNext ==
    \/ \E s \in Sessions, f \in UploadedFiles, e \in EmbedOutcomes : Upload(s, f, e)
    \/ \E s \in Sessions, query \in Queries, io \in IoOutcomes : SessionSearch(s, query, io)

SessionSpec == SessionInit /\ [][SessionNext]_vars

(***************************************************************************)
(* Properties of the tool-calling loop.                                    *)
(***************************************************************************)
IsPrefix(s, t) == Len(s) <= Len(t) /\ SubSeq(t, 1, Len(s)) = s

Running == state \in {"AWAIT_MODEL", "DISPATCH_TOOLS"}

Ended == state \in {"DONE", "EXHAUSTED", "RAISED"}

\* the turns the current run of the loop has appended
RunTurns == SubSeq(messages, runStart + 1, Len(messages))

\* every reply of the current run asked for at least one tool
EveryReplyRequestsTools ==
    \A i \in 1..Len(RunTurns) : RunTurns[i].type = "ai" => RunTurns[i].tool_calls # <<>>

\* the steps the loop can still take are bounded by Rank, which every step lowers
Rank ==
    CASE state = "AWAIT_MODEL" -> (max_iterations - iteration) * (MaxRequested + 2) + 1
      [] state = "DISPATCH_TOOLS" ->
            (max_iterations - iteration) * (MaxRequested + 2) + 1 + (Len(tool_calls) - callIdx + 1)
      [] OTHER -> 0

\* C1: run_agent_with_tools terminates for every model behaviour (each step of
\* a running loop lowers a natural-number rank); the model is never invoked a
\* 6th time in one run; a run in which every reply requested a tool ends after
\* exactly 5 invocations with the fixed exhaustion message as its result.
C1_LoopTerminatesAtFive ==
    /\ [](modelCalls <= 5 /\ Rank >= 0)
    /\ []((Ended /\ state # "RAISED" /\ EveryReplyRequestsTools)
            => (state = "EXHAUSTED" /\ modelCalls = 5 /\ result = ExhaustionMessage(variant)))
    /\ [](state = "EXHAUSTED" => (modelCalls = 5 /\ result = ExhaustionMessage(variant)))
    /\ [][Running => Rank' < Rank]_vars

C1_Witness ==
    state = "EXHAUSTED" /\ modelCalls = 5 /\ dispatched = 5 /\ EveryReplyRequestsTools

\* C2: a reply without tool calls ends the loop in DONE with the reply's text
\* as the result and nothing dispatched after it: such a reply is the last
\* turn its run appends, and when it is the first reply of the run the model
\* was invoked once and no tool was dispatched.
C2_NoToolReplyEndsLoop ==
    /\ \A i \in 1..Len(messages) :
          (messages[i].type = "ai" /\ messages[i].tool_calls = <<>>)
             => /\ i < Len(messages) => messages[i + 1].type = "human"
                /\ i > runStart => (~Running /\ state \notin {"EXHAUSTED", "RAISED"}
                                    /\ i = Len(messages) /\ result = messages[i].content)
    /\ state = "DONE"
          => /\ messages[Len(messages)].type = "ai"
             /\ messages[Len(messages)].tool_calls = <<>>
             /\ result = messages[Len(messages)].content
             /\ dispatched = Len(messages) - runStart - modelCalls
             /\ modelCalls = 1 => (dispatched = 0 /\ toolRuns = 0 /\ Len(messages) = runStart + 1)

C2_Witness ==
    state = "DONE" /\ modelCalls = 1 /\ dispatched = 0 /\ result = <<"answer">>

\* the position of the latest model turn before position i (0 when there is none)
RECURSIVE LastModelTurn(_, _)
LastModelTurn(history, i) ==
    IF i <= 1 THEN 0
    ELSE IF history[i - 1].type = "ai" THEN i - 1
    ELSE LastModelTurn(history, i - 1)

CallIds(calls) == {calls[k].id : k \in 1..Len(calls)}

\* every tool-result turn answers a call of the latest model turn before it
ToolTurnsAnswerLatestReply ==
    \A i \in 1..Len(messages) :
        messages[i].type = "tool"
            => LET j == LastModelTurn(messages, i)
               IN  j > 0 /\ messages[i].tool_call_id \in CallIds(messages[j].tool_calls)

\* the REPL builds a new history for the run it starts
ReplStartsRun == variant = "repl" /\ state = "IDLE" /\ state' = "AWAIT_MODEL"

\* C3 as stated: in every reachable state each tool-result turn carries an id
\* requested by the most recent model turn before it, and the history of the
\* session only grows by appending.
C3_Original ==
    /\ []ToolTurnsAnswerLatestReply
    /\ [][IsPrefix(messages, messages')]_vars

\* C3 amended: each tool-result turn carries an id requested by the most recent
\* model turn before it; the history only grows by appending during a run of
\* the loop and, in the web chat, over the whole session; the REPL starts
\* every run with a new history of a system turn and the user turn.
C3_HistoryAppendOnly ==
    /\ []ToolTurnsAnswerLatestReply
    /\ [][IsPrefix(messages, messages')
            \/ (ReplStartsRun /\ Len(messages') = 2 /\ messages'[1].type = "system"
                /\ messages'[2].type = "human")]_vars

C3_Witness ==
    /\ variant = "web"
    /\ inputs = 2
    /\ \E i \in 1..runStart : messages[i].type = "tool"
    /\ \E i \in (runStart + 1)..Len(messages) : messages[i].type = "tool"

\* the tool-result turns that follow the model turn at position j
ResultsAfter(history, j) ==
    LET n == Len(history[j].tool_calls)
    IN  /\ Len(history) >= j + n
        /\ \A k \in 1..n : /\ history[j + k].type = "tool"
                           /\ history[j + k].tool_call_id = history[j].tool_calls[k].id
        /\ Len(history) > j + n => history[j + n + 1].type # "tool"

\* C4: a model turn that requests n calls is followed by exactly n tool-result
\* turns, the i-th carrying the id of the i-th call, before the model is
\* invoked again (or the run ends); while the calls are being dispatched the
\* results appended so far answer the first calls, in the requested order.
C4_ResultsInRequestOrder ==
    \A j \in 1..Len(messages) :
        (messages[j].type = "ai" /\ messages[j].tool_calls # <<>>)
            => IF state = "DISPATCH_TOOLS" /\ j = LastModelTurn(messages, Len(messages) + 1)
               THEN /\ Len(messages) = j + callIdx - 1
                    /\ messages[j].tool_calls = tool_calls
                    /\ \A k \in 1..(callIdx - 1) :
                          /\ messages[j + k].type = "tool"
                          /\ messages[j + k].tool_call_id = tool_calls[k].id
               ELSE ResultsAfter(messages, j)

C4_Witness ==
    /\ state = "AWAIT_MODEL"
    /\ iteration = 1
    /\ Len(tool_calls) = 2
    /\ tool_calls[1].name # tool_calls[2].name
    /\ messages[Len(messages)].tool_call_id = tool_calls[2].id
    /\ messages[Len(messages) - 1].tool_call_id = tool_calls[1].id

\* the requested call that the tool-result turn at position i answers
CallAnswered(history, i) ==
    LET j == LastModelTurn(history, i)
        k == CHOOSE k \in 1..Len(history[j].tool_calls) :
                 history[j].tool_calls[k].id = history[i].tool_call_id
    IN  history[j].tool_calls[k]

Registered(name) == \E k \in 1..Len(tools) : tools[k] = name

\* C5: a requested tool whose name matches no registered tool exactly is not
\* executed, and the tool-result turn appended for the call is the synthesized
\* "Tool <name> not found" text, in the REPL loop and in the web-chat loop.
C5_UnknownToolNotFound ==
    /\ [](\A i \in 1..Len(messages) :
            (messages[i].type = "tool" /\ ~Registered(CallAnswered(messages, i).name))
               => messages[i].content = <<"Tool ", CallAnswered(messages, i).name, " not found">>)
    /\ [][(state = "DISPATCH_TOOLS" /\ ~Registered(tool_calls[callIdx].name))
            => (toolRuns' = toolRuns /\ ticketLog' = ticketLog)]_vars

\* the call the for loop is at raises inside tool._run
CurrentCallRaises ==
    /\ state = "DISPATCH_TOOLS"
    /\ Registered(tool_calls[callIdx].name)
    /\ DOMAIN tool_calls[callIdx].args # Params(tool_calls[callIdx].name)

\* C6: a tool that raises during dispatch does not abort the loop: the step
\* appends a tool-result turn for that call whose content is the dispatch
\* site's error text with the exception's message, then goes on to the next
\* call of the turn, or back to AWAIT_MODEL after the last one.
C6_ToolExceptionCaught ==
    [][CurrentCallRaises
         => /\ messages' = Append(messages,
                  ToolMessage((IF variant = "repl" THEN <<"Error executing tool: ">>
                                                   ELSE <<"Tool error: ">>) \o <<"TypeError">>,
                              tool_calls[callIdx].id))
            /\ state' # "RAISED"
            /\ callIdx < Len(tool_calls) => (state' = "DISPATCH_TOOLS" /\ callIdx' = callIdx + 1)
            /\ callIdx = Len(tool_calls) => state' = "AWAIT_MODEL"]_vars

\* a raising call was answered and the call after it dispatched as well
C6_Witness ==
    /\ state = "AWAIT_MODEL"
    /\ Len(tool_calls) = 2
    /\ tool_calls[1].name = "lookup_ticket"
    /\ tool_calls[2].name = "escalate_ticket"
    /\ messages[Len(messages) - 1].content[2] = "TypeError"
    /\ messages[Len(messages)].content[1] = "Ticket Escalated Successfully!"

\* C7: a failure of the model invocation inside the loop is caught by the
\* presentation layer, which shows the generic apology and leaves the session
\* ready for the next user message, in the REPL and in the web chat.
C7_ModelFailureCaught ==
    [][state = "RAISED" => (shown' = Apology /\ state' = "IDLE")]_vars

\* C8: in the web chat the session history holds exactly one system turn, it is
\* the first turn, and its content is the fixed system prompt throughout.
C8_OneSystemTurn ==
    variant = "web"
        => /\ Len(messages) >= 1
           /\ messages[1] = SystemMessage(web_system_prompt)
           /\ \A i \in 2..Len(messages) : messages[i].type # "system"

C8_Witness ==
    /\ variant = "web"
    /\ inputs = 2
    /\ state = "IDLE"
    /\ Len(messages) > 5
    /\ Cardinality({i \in 1..Len(messages) : messages[i].type = "human"}) = 2

(***************************************************************************)
(* Properties of the ticket tools.                                         *)
(***************************************************************************)
\* the step is a direct call of escalate_ticket that reported success
EscalateSucceeds ==
    /\ lastCall'.seq = lastCall.seq + 1
    /\ Succeeded(lastCall'.tool, lastCall')

\* the step appends one record to the log and leaves the earlier lines alone
AppendsOneRecord ==
    /\ Len(ticketLog') = Len(ticketLog) + 1
    /\ SubSeq(ticketLog', 1, Len(ticketLog)) = ticketLog
    /\ JsonParses(ticketLog'[Len(ticketLog')])

NewRecord == JsonLoads(ticketLog'[Len(ticketLog')])

\* C9 as stated: a successful escalate_ticket call appends exactly one record
\* with status "open" and the given summary and severity, and leaves every
\* earlier record unchanged and in place.
C9_Original ==
    [][EscalateSucceeds
         => /\ AppendsOneRecord
            /\ NewRecord.status = "open"
            /\ NewRecord.summary = lastCall'.args.summary
            /\ NewRecord.severity = lastCall'.args.severity_level]_vars

\* C9 amended: a successful escalate_ticket call appends exactly one record
\* with status "open", the given summary and the given severity in lower
\* case, and leaves every earlier record unchanged and in place.
C9_AppendsOpenRecord ==
    [][EscalateSucceeds
         => /\ AppendsOneRecord
            /\ NewRecord.status = "open"
            /\ NewRecord.summary = lastCall'.args.summary
            /\ NewRecord.severity \in Severities
            /\ NewRecord.severity = Lower(lastCall'.args.severity_level)]_vars

\* a ticket filed as "HIGH" was appended behind two earlier records
C9_Witness ==
    /\ Succeeded(lastCall.tool, lastCall)
    /\ lastCall.args.severity_level = "HIGH"
    /\ Len(ticketLog) = 3
    /\ JsonLoads(ticketLog[3]).severity = "high"
    /\ JsonLoads(ticketLog[3]).summary = lastCall.args.summary
    /\ JsonLoads(ticketLog[1]).summary # lastCall.args.summary

\* the text that follows a label in a formatted result
Field(content, label) ==
    content[(CHOOSE i \in 1..(Len(content) - 1) : content[i] = label) + 1]

IsDetails(content) == Len(content) > 0 /\ content[1] = "Ticket Details:"

\* the last call was a lookup, with a readable log, of the id filing j returned
LookedUp(j) ==
    /\ lastCall.tool = "lookup_ticket"
    /\ lastCall.io = "ok"
    /\ lastCall.args.ticket_id = filed[j].ticket_id

\* C10 as stated: after any sequence of filings, lookup_ticket with the id an
\* escalate_ticket call returned shows the summary and the severity that were
\* passed to that call.
C10_Original ==
    \A j \in 1..Len(filed) :
        LookedUp(j)
            => /\ IsDetails(lastCall.content)
               /\ Field(lastCall.content, "Summary: ") = filed[j].summary
               /\ Field(lastCall.content, "Severity: ") = filed[j].severity_level

\* filing j is the first one that returned its id
FirstWithId(j) == \A i \in 1..(j - 1) : filed[i].ticket_id # filed[j].ticket_id

\* C10 amended: lookup_ticket with the id an escalate_ticket call returned
\* shows a record with that id and status "open"; it is the record of the
\* first filing that returned this id, so it shows the summary and the
\* lower-cased severity passed to a call unless an earlier call, filed within
\* the same second, returned the same id.
C10_LookupShowsFirstFiling ==
    \A j \in 1..Len(filed) :
        LookedUp(j)
            => /\ IsDetails(lastCall.content)
               /\ <<lastCall.content[3], lastCall.content[4]>> = filed[j].ticket_id
               /\ Field(lastCall.content, "Status: ") = "open"
               /\ FirstWithId(j)
                    => /\ Field(lastCall.content, "Summary: ") = filed[j].summary
                       /\ Field(lastCall.content, "Severity: ") = Lower(filed[j].severity_level)

\* two tickets filed in the same second share the id that was looked up
C10_Witness ==
    /\ Len(filed) = 2
    /\ filed[1].ticket_id = filed[2].ticket_id
    /\ filed[1].summary # filed[2].summary
    /\ filed[1].severity_level = "HIGH"
    /\ LookedUp(2)
    /\ Field(lastCall.content, "Summary: ") = filed[1].summary
    /\ Field(lastCall.content, "Severity: ") = "high"

(***************************************************************************)
(* Properties of the ticket ids.                                           *)
(***************************************************************************)
\* the second in which datetime.now() read the time now
SecondOf(now) == now \div TicksPerSecond

\* C11: two tickets filed at different seconds receive different ids: the
\* ids of two filings coincide only when both were filed within the same
\* second.
C11_IdsDifferAcrossSeconds ==
    \A i, j \in 1..Len(filed) :
        /\ SecondOf(filed[i].at) # SecondOf(filed[j].at) => filed[i].ticket_id # filed[j].ticket_id
        /\ filed[i].ticket_id = filed[j].ticket_id => SecondOf(filed[i].at) = SecondOf(filed[j].at)

\* three filings: two within one second and one in a later second
C11_Witness ==
    /\ Len(filed) = 3
    /\ SecondOf(filed[1].at) = SecondOf(filed[2].at)
    /\ filed[1].at # filed[2].at
    /\ filed[1].ticket_id = filed[2].ticket_id
    /\ SecondOf(filed[2].at) # SecondOf(filed[3].at)
    /\ filed[2].ticket_id # filed[3].ticket_id

(***************************************************************************)
(* Properties of lookup_ticket.                                            *)
(***************************************************************************)
\* the step is a direct call of tool
CallStep(tool) == lastCall'.seq = lastCall.seq + 1 /\ lastCall'.tool = tool

\* no record of the log carries ticket_id
NoRecordWithId(log, ticket_id) ==
    \A k \in 1..Len(log) :
        JsonParses(log[k]) => Get(JsonLoads(log[k]), "ticket_id") # ticket_id

\* C12: lookup_ticket never changes the ticket log. When the log can be read
\* and no record carries the id, it returns the not-found message and appends
\* nothing; when the log file does not exist it returns the "No tickets found"
\* message, which is not an error, and does not create the file.
C12_LookupLeavesLog ==
    [][CallStep("lookup_ticket")
         => /\ ticketLog' = ticketLog
            /\ logExists' = logExists
            /\ ~lastCall'.raised
            /\ ~logExists => lastCall'.content = <<"No tickets found in the system.">>
            /\ (logExists /\ lastCall'.io = "ok"
                   /\ NoRecordWithId(ticketLog, lastCall'.args.ticket_id))
                 => lastCall'.content
                      = <<"No ticket found with ID ">> \o lastCall'.args.ticket_id \o <<".">>]_vars

\* a lookup of an id no record carries, against a log that holds a record
C12_Witness ==
    /\ lastCall.tool = "lookup_ticket"
    /\ lastCall.io = "ok"
    /\ logExists
    /\ Len(ticketLog) = 1
    /\ NoRecordWithId(ticketLog, lastCall.args.ticket_id)
    /\ lastCall.content = <<"No ticket found with ID ">> \o lastCall.args.ticket_id \o <<".">>

\* the scan the specification asks for: a line that does not parse is passed
\* over, like a blank one
RECURSIVE ScanSkipping(_, _, _)
ScanSkipping(log, i, ticket_id) ==
    IF i > Len(log)
    THEN <<"No ticket found with ID ">> \o ticket_id \o <<".">>
    ELSE IF ~JsonParses(log[i])
    THEN ScanSkipping(log, i + 1, ticket_id)
    ELSE IF Get(JsonLoads(log[i]), "ticket_id") = ticket_id
    THEN TicketDetails(JsonLoads(log[i]))
    ELSE ScanSkipping(log, i + 1, ticket_id)

\* C13: lookup_ticket skips malformed lines of the log silently: a matching
\* record that follows a malformed line is still returned, and when no record
\* matches the result is the not-found message rather than an error.
C13_SkipsMalformedLines ==
    [][(CallStep("lookup_ticket") /\ logExists /\ lastCall'.io = "ok")
         => lastCall'.content = ScanSkipping(ticketLog, 1, lastCall'.args.ticket_id)]_vars

(***************************************************************************)
(* Properties of calculate_pricing.                                        *)
(***************************************************************************)
PlanTypes == {"basic", "pro", "enterprise"}

\* the monthly rate per user the specification states for each plan
StatedRate(plan_type) ==
    CASE plan_type = "basic" -> 10
      [] plan_type = "pro" -> 20
      [] plan_type = "enterprise" -> 40

HasLabel(content, label) == \E i \in 1..(Len(content) - 1) : content[i] = label

\* the error string that enumerates the valid plan types
IsPlanError(content) ==
    /\ Len(content) = 3
    /\ content[1] = "Error: Invalid plan type '"
    /\ content[3] = "'. Valid options are: basic, pro, enterprise"

\* C14: for every positive user count and every plan type among basic, pro
\* and enterprise, calculate_pricing returns a total monthly cost equal to the
\* user count times the plan's rate: 10 for basic, 20 for pro, 40 for
\* enterprise.
C14_TotalIsUsersTimesRate ==
    (/\ lastCall.tool = "calculate_pricing"
     /\ lastCall.args.number_of_users > 0
     /\ lastCall.args.plan_type \in PlanTypes)
        => /\ ~lastCall.raised
           /\ HasLabel(lastCall.content, "Total Monthly Cost: $")
           /\ Field(lastCall.content, "Total Monthly Cost: $")
                = ToString(lastCall.args.number_of_users * StatedRate(lastCall.args.plan_type))

\* ten users on the pro plan cost 200 a month
C14_Witness ==
    /\ lastCall.tool = "calculate_pricing"
    /\ lastCall.args.number_of_users = 10
    /\ lastCall.args.plan_type = "pro"
    /\ Field(lastCall.content, "Total Monthly Cost: $") = "200"

\* C15 as stated: a call with a plan type outside basic, pro and enterprise
\* returns the error string that enumerates the valid options and computes
\* no total.
C15_Original ==
    (lastCall.tool = "calculate_pricing" /\ lastCall.args.plan_type \notin PlanTypes)
        => /\ ~lastCall.raised
           /\ IsPlanError(lastCall.content)
           /\ ~HasLabel(lastCall.content, "Total Monthly Cost: $")

\* C15: a call with a plan type that is outside basic, pro and enterprise
\* once converted to lower case returns the error string that enumerates the
\* valid options, computes no total and does not raise; a plan type that
\* differs from a valid one only in letter case is priced as that plan.
C15_InvalidPlanIsError ==
    lastCall.tool = "calculate_pricing"
        => /\ ~lastCall.raised
           /\ Lower(lastCall.args.plan_type) \notin PlanTypes
                => /\ IsPlanError(lastCall.content)
                   /\ lastCall.content[2] = Lower(lastCall.args.plan_type)
                   /\ ~HasLabel(lastCall.content, "Total Monthly Cost: $")
           /\ Lower(lastCall.args.plan_type) \in PlanTypes
                => /\ HasLabel(lastCall.content, "Total Monthly Cost: $")
                   /\ Field(lastCall.content, "Total Monthly Cost: $")
                        = ToString(lastCall.args.number_of_users
                                     * StatedRate(Lower(lastCall.args.plan_type)))

\* a call with a plan type no case conversion makes valid
C15_Witness ==
    /\ lastCall.tool = "calculate_pricing"
    /\ lastCall.args.plan_type = "Gold"
    /\ lastCall.content = <<"Error: Invalid plan type '", "gold",
                            "'. Valid options are: basic, pro, enterprise">>

(***************************************************************************)
(* Properties of search_documentation and of the two indices.              *)
(***************************************************************************)
\* the result is a list of citation blocks
IsCitations(content) == Len(content) > 0 /\ content[1] = "["

\* the positions in a result at which a citation block begins
BlockStarts(content) == {p \in 1..Len(content) : content[p] = "["}

\* the label of the block that begins at p
BlockLabel(content, p) == content[p + 1]

\* the digit a token shows
Digit(token) == CHOOSE n \in 0..9 : ToString(n) = token

\* the score printed in the block that begins at p, in hundredths
BlockScore(content, p) ==
    LET q == CHOOSE i \in p..Len(content) :
                 /\ content[i] = ", Score: "
                 /\ \A j \in p..(i - 1) : content[j] # ", Score: "
    IN  100 * Digit(content[q + 1]) + 10 * Digit(content[q + 3]) + Digit(content[q + 4])

LabelCount(content, label) ==
    Cardinality({p \in BlockStarts(content) : BlockLabel(content, p) = label})

Min(a, b) == IF a < b THEN a ELSE b

\* C16: search_documentation takes at most three candidates from the base
\* index and at most three from the session index, and returns at most five
\* citation blocks, ordered by ascending distance across both sources, so a
\* session match at 0.05 is listed before a base match at 0.1.
C16_FiveBestAscending ==
    [][(CallStep("search_documentation") /\ IsCitations(lastCall'.content))
         => LET c == lastCall'.content
                fromBase == Min(3, Len(NEBULA_DB.docs))
                fromSession == Min(3, Len(TEMP_USER_DB.docs))
            IN  /\ Cardinality(BlockStarts(c)) = Min(5, fromBase + fromSession)
                /\ LabelCount(c, "NebulaSoft Manual") <= 3
                /\ LabelCount(c, "Uploaded Document") <= 3
                /\ \A p, q \in BlockStarts(c) : p < q => BlockScore(c, p) <= BlockScore(c, q)]_vars

\* six candidates, three from each index: five blocks come back, the
\* session match at 0.05 ahead of the base match at 0.10
C16_Witness ==
    /\ lastCall.tool = "search_documentation"
    /\ IsCitations(lastCall.content)
    /\ Cardinality(BlockStarts(lastCall.content)) = 5
    /\ LabelCount(lastCall.content, "NebulaSoft Manual") = 3
    /\ LabelCount(lastCall.content, "Uploaded Document") = 2
    /\ \E p, q \in BlockStarts(lastCall.content) :
          /\ p < q
          /\ BlockLabel(lastCall.content, p) = "Uploaded Document"
          /\ BlockScore(lastCall.content, p) = 5
          /\ BlockLabel(lastCall.content, q) = "NebulaSoft Manual"
          /\ BlockScore(lastCall.content, q) = 10

\* C17 as stated: with no base index and no session index, a search whose
\* query does not fail returns the "no relevant documentation" sentinel and
\* no other message.
C17_Original ==
    [][(/\ CallStep("search_documentation")
        /\ NEBULA_DB.docs = <<>>
        /\ ~TEMP_USER_DB.present
        /\ lastCall'.io = "ok")
         => /\ ~lastCall'.raised
            /\ lastCall'.content = <<"No relevant documentation was found for this query.">>]_vars

\* C17: with no session index, a search does not raise and does not return
\* an empty string; when the base index could not be loaded (NEBULA_DB is
\* None) it returns the "database is not available" message instead of the
\* sentinel, and when the base index is loaded but holds nothing a query
\* that does not fail returns the "no relevant documentation" sentinel.
C17_NoIndexMessages ==
    [][(/\ CallStep("search_documentation")
        /\ NEBULA_DB.docs = <<>>
        /\ ~TEMP_USER_DB.present)
         => /\ ~lastCall'.raised
            /\ lastCall'.content # <<>>
            /\ lastCall'.content # <<"">>
            /\ ~NEBULA_DB.present
                 => lastCall'.content =
                      <<"Error: NebulaSoft documentation database is not available. Please run ingest.py to build the vector database.">>
            /\ (NEBULA_DB.present /\ lastCall'.io = "ok")
                 => lastCall'.content
                      = <<"No relevant documentation was found for this query.">>]_vars

\* a search with NEBULA_DB None and nothing uploaded
C17_Witness ==
    /\ lastCall.tool = "search_documentation"
    /\ lastCall.io = "ok"
    /\ ~NEBULA_DB.present
    /\ ~TEMP_USER_DB.present
    /\ lastCall.content = DbUnavailableMessage

\* C18: search_documentation never returns an empty string: whenever the
\* combined result list of both indices is empty it returns the explicit
\* no-results sentinel, and otherwise it returns at least one citation block.
C18_NeverEmptyString ==
    [][CallStep("search_documentation")
         => /\ ~lastCall'.raised
            /\ lastCall'.content # <<>>
            /\ lastCall'.content # <<"">>
            /\ (NEBULA_DB.present /\ lastCall'.io = "ok")
                 => IF NEBULA_DB.docs = <<>> /\ TEMP_USER_DB.docs = <<>>
                    THEN lastCall'.content
                           = <<"No relevant documentation was found for this query.">>
                    ELSE /\ IsCitations(lastCall'.content)
                         /\ Cardinality(BlockStarts(lastCall'.content)) >= 1]_vars

\* an empty base index and no upload: the sentinel comes back
C18_Witness ==
    /\ lastCall.tool = "search_documentation"
    /\ lastCall.io = "ok"
    /\ NEBULA_DB.present
    /\ NEBULA_DB.docs = <<>>
    /\ TEMP_USER_DB.docs = <<>>
    /\ lastCall.content = <<"No relevant documentation was found for this query.">>

(***************************************************************************)
(* Properties of the tools' error handling.                                *)
(***************************************************************************)
\* the scan of lookup_ticket reaches a line that is neither blank nor JSON
\* before it reaches a record with ticket_id
HitsMalformed(log, ticket_id) ==
    \E k \in 1..Len(log) :
        /\ ~JsonParses(log[k])
        /\ ~IsBlank(log[k])
        /\ \A j \in 1..(k - 1) :
              JsonParses(log[j]) => Get(JsonLoads(log[j]), "ticket_id") # ticket_id

\* the step is a direct tool call in which something the tool relies on
\* fails: the index query, the open of the log, or the parse of a line
InternalFailure ==
    /\ lastCall'.seq = lastCall.seq + 1
    /\ \/ /\ lastCall'.tool = "search_documentation"
          /\ NEBULA_DB.present
          /\ lastCall'.io # "ok"
       \/ /\ lastCall'.tool = "escalate_ticket"
          /\ Lower(lastCall'.args.severity_level) \in {"low", "medium", "high"}
          /\ lastCall'.io # "ok"
       \/ /\ lastCall'.tool = "lookup_ticket"
          /\ logExists
          /\ lastCall'.io # "ok" \/ HitsMalformed(ticketLog, lastCall'.args.ticket_id)

\* the first piece of a result begins with the characters "Error:"
BeginsErrorColon(content) ==
    /\ Len(content) > 0
    /\ content[1] \in {"Error: Invalid severity level '", "Error: Invalid plan type '",
                       "Error: NebulaSoft documentation database is not available. Please run ingest.py to build the vector database."}

\* the first piece of a result begins with the word "Error" and names the
\* operation that failed
BeginsErrorDoing(content) ==
    /\ Len(content) > 1
    /\ content[1] \in {"Error searching documentation: ", "Error filing ticket: ",
                       "Error reading ticket log: "}

\* C19 as stated: no tool raises, and every internal failure is returned as
\* a string that begins with "Error:".
C19_Original ==
    [][/\ lastCall'.seq = lastCall.seq + 1 => ~lastCall'.raised
       /\ InternalFailure => BeginsErrorColon(lastCall'.content)]_vars

\* C19: no tool's _run raises past its own boundary: every internal failure
\* (index query failure, log file unwritable or unreadable, unparsable log
\* content) is caught inside the tool and returned as a string that begins
\* with "Error" followed by the failed operation and a colon ("Error
\* searching documentation: ", "Error filing ticket: ", "Error reading ticket
\* log: ").
C19_FailuresReturnedAsText ==
    [][/\ lastCall'.seq = lastCall.seq + 1 => ~lastCall'.raised
       /\ InternalFailure
            => /\ BeginsErrorDoing(lastCall'.content)
               /\ lastCall'.tool = "search_documentation"
                    => lastCall'.content[1] = "Error searching documentation: "
               /\ lastCall'.tool = "escalate_ticket"
                    => lastCall'.content[1] = "Error filing ticket: "
               /\ lastCall'.tool = "lookup_ticket"
                    => lastCall'.content[1] = "Error reading ticket log: "]_vars

\* a lookup that met a foreign line and reported it
C19_Witness ==
    /\ lastCall.tool = "lookup_ticket"
    /\ lastCall.io = "ok"
    /\ HitsMalformed(ticketLog, lastCall.args.ticket_id)
    /\ ~lastCall.raised
    /\ lastCall.content = <<"Error reading ticket log: ", "JSONDecodeError">>

\* the step is a call of ingest_user_document
IngestStep == ingests' = ingests + 1

\* C20: the session upload index does not exist until the first upload; the
\* first ingest creates it holding that one document, every later ingest
\* adds one document to the same index, and no ingest ever adds to or
\* changes the base index.
C20_UploadsBuildSessionIndex ==
    /\ ~TEMP_USER_DB.present
    /\ [][/\ TEMP_USER_DB' # TEMP_USER_DB => IngestStep
          /\ NEBULA_DB' = NEBULA_DB
          /\ (IngestStep /\ lastIngest'.e = "ok")
               => /\ TEMP_USER_DB'.present
                  /\ IF ~TEMP_USER_DB.present
                     THEN TEMP_USER_DB'.docs = <<lastIngest'.doc>>
                     ELSE TEMP_USER_DB'.docs = Append(TEMP_USER_DB.docs, lastIngest'.doc)]_vars

\* after two uploads the session index holds the two documents, in order
C20_Witness ==
    /\ TEMP_USER_DB.present
    /\ Len(TEMP_USER_DB.docs) = 2
    /\ TEMP_USER_DB.docs[1].page_content = "sync fails with error 500"
    /\ TEMP_USER_DB.docs[2] = lastIngest.doc
    /\ lastIngest.doc.page_content = "restart fixes error 500"
    /\ lastIngest.e = "ok"
    /\ NEBULA_DB = ManualIndex

(***************************************************************************)
(* Properties of the sessions.                                             *)
(***************************************************************************)
\* the source name printed in the block that begins at p
BlockSource(content, p) == content[p + 3]

\* C21: the upload index is private per session: a document uploaded in one
\* chat session never appears in the search_documentation results of a
\* different session served by the same process, so every uploaded document
\* a search cites was uploaded by the session that searched.
C21_UploadsPrivatePerSession ==
    (lastCall.tool = "search_documentation" /\ searcher \in Sessions
       /\ IsCitations(lastCall.content))
        => \A p \in BlockStarts(lastCall.content) :
              BlockLabel(lastCall.content, p) = "Uploaded Document"
                => BlockSource(lastCall.content, p) \in SourceNames(uploaded_sources[searcher])

(***************************************************************************)
(* More properties of the ticket tools.                                    *)
(***************************************************************************)
\* line k of the log is a record that carries exactly ticket_id
Matches(log, k, ticket_id) ==
    JsonParses(log[k]) /\ Get(JsonLoads(log[k]), "ticket_id") = ticket_id

\* the tokens of a result from position a to position b
Tokens(content, a, b) == SubSeq(content, a, b)

\* C22: lookup_ticket scans the log from the start and returns the first
\* record whose id equals the requested id exactly: when several records
\* share an id the earliest-appended one is returned and later ones never
\* are, and a record with another id is never returned.
C22_FirstExactMatch ==
    [][(CallStep("lookup_ticket") /\ logExists /\ lastCall'.io = "ok")
         => LET c == lastCall'.content
                ticket_id == lastCall'.args.ticket_id
            IN  IF \E k \in 1..Len(ticketLog) : Matches(ticketLog, k, ticket_id)
                THEN LET first == CHOOSE k \in 1..Len(ticketLog) :
                                     /\ Matches(ticketLog, k, ticket_id)
                                     /\ \A j \in 1..(k - 1) : ~Matches(ticketLog, j, ticket_id)
                         ticket == JsonLoads(ticketLog[first])
                     IN  /\ IsDetails(c)
                         /\ Tokens(c, 3, 4) = ticket_id
                         /\ Tokens(c, 6, 8) = ticket.timestamp
                         /\ Field(c, "Summary: ") = ticket.summary
                         /\ Field(c, "Severity: ") = ticket.severity
                ELSE ~IsDetails(c)]_vars

\* two records with one id, written at different ticks of one second: the
\* lookup of that id shows the time and the summary of the earlier record
C22_Witness ==
    /\ Len(ticketLog) = 2
    /\ JsonLoads(ticketLog[1]).ticket_id = JsonLoads(ticketLog[2]).ticket_id
    /\ JsonLoads(ticketLog[1]).timestamp # JsonLoads(ticketLog[2]).timestamp
    /\ JsonLoads(ticketLog[1]).summary # JsonLoads(ticketLog[2]).summary
    /\ lastCall.tool = "lookup_ticket"
    /\ lastCall.io = "ok"
    /\ lastCall.args.ticket_id = JsonLoads(ticketLog[2]).ticket_id
    /\ IsDetails(lastCall.content)
    /\ Tokens(lastCall.content, 6, 8) = JsonLoads(ticketLog[1]).timestamp
    /\ Field(lastCall.content, "Summary: ") = JsonLoads(ticketLog[1]).summary

(***************************************************************************)
(* The loop at exhaustion.                                                 *)
(***************************************************************************)
\* the calls the replies of the current run requested: <<turn, position>>
CallsInRun ==
    {c \in (1..Len(RunTurns)) \X (1..MaxRequested) :
        RunTurns[c[1]].type = "ai" /\ c[2] <= Len(RunTurns[c[1]].tool_calls)}

\* the tool-result turns of the current run that confirm a filed ticket
FiledInRun ==
    {i \in 1..Len(RunTurns) :
        /\ RunTurns[i].type = "tool"
        /\ RunTurns[i].content # <<>>
        /\ RunTurns[i].content[1] = "Ticket Escalated Successfully!"}

\* the position of the last user turn before position j, 0 when there is none
RECURSIVE LastHumanTurn(_, _)
LastHumanTurn(history, j) ==
    IF j <= 1 THEN 0
    ELSE IF history[j - 1].type = "human" THEN j - 1
    ELSE LastHumanTurn(history, j - 1)

\* the model turn at j is the fifth reply to one user message and requests tools
FifthReply(history, j) ==
    /\ history[j].type = "ai"
    /\ history[j].tool_calls # <<>>
    /\ Cardinality({i \in (LastHumanTurn(history, j) + 1)..j : history[i].type = "ai"}) = 5

\* the results of a fifth reply are never part of what a model turn was given
NeverConsumed ==
    \A j \in 1..Len(messages) :
        FifthReply(messages, j) => \A i \in (j + 1)..Len(messages) : messages[i].type # "ai"

\* the calls of the fifth reply have run and their results end the history
ExhaustedAfterDispatch ==
    state = "EXHAUSTED"
        => LET j == LastModelTurn(messages, Len(messages) + 1)
           IN  /\ modelCalls = 5
               /\ Cardinality({i \in 1..Len(RunTurns) : RunTurns[i].type = "ai"}) = 5
               /\ j > 0
               /\ messages[j].tool_calls # <<>>
               /\ Len(messages) = j + Len(messages[j].tool_calls)
               /\ \A k \in 1..Len(messages[j].tool_calls) :
                     /\ messages[j + k].type = "tool"
                     /\ messages[j + k].tool_call_id = messages[j].tool_calls[k].id
               /\ dispatched = Cardinality(CallsInRun)
               /\ toolRuns = Cardinality({c \in CallsInRun :
                                            Registered(RunTurns[c[1]].tool_calls[c[2]].name)})
               /\ Len(ticketLog) >= Cardinality(FiledInRun)

\* C23 as stated: when the loop ends in EXHAUSTED the calls of the 5th reply
\* have been executed and their result turns appended, and no model turn ever
\* consumes those turns.
C23_Original == ExhaustedAfterDispatch /\ NeverConsumed

\* C23: when the loop ends in EXHAUSTED, the tool calls requested by the 5th
\* model reply have already been executed, side effects included (a ticket
\* they filed is in the log), and their result turns have been appended, so
\* the history ends with tool-result turns that no model turn of that run
\* consumes; in the REPL, whose history is rebuilt for every user message, no
\* later model turn consumes them either.
C23_LastCallsRunBeforeExhaustion ==
    /\ ExhaustedAfterDispatch
    /\ variant = "repl" => NeverConsumed

\* five replies each filed a ticket: at exhaustion the fifth ticket is in the
\* log and its confirmation is the last turn of the history
C23_Witness ==
    /\ state = "EXHAUSTED"
    /\ Cardinality(FiledInRun) = 5
    /\ Len(ticketLog) = 5
    /\ messages[Len(messages)].type = "tool"
    /\ messages[Len(messages)].content[1] = "Ticket Escalated Successfully!"

\* C24: escalate_ticket called with a severity that, lower-cased, is outside
\* low, medium and high returns an error string and leaves the ticket log
\* unchanged: no record is appended, the file is not created, and no ticket
\* id is minted.
C24_InvalidSeverityWritesNothing ==
    [][(/\ CallStep("escalate_ticket")
        /\ Lower(lastCall'.args.severity_level) \notin {"low", "medium", "high"})
         => /\ ~lastCall'.raised
            /\ lastCall'.content
                 = <<"Error: Invalid severity level '", Lower(lastCall'.args.severity_level), "'">>
            /\ \A i \in 1..Len(lastCall'.content) : lastCall'.content[i] # "TKT-"
            /\ ticketLog' = ticketLog
            /\ logExists' = logExists
            /\ filed' = filed]_vars

\* a call with severity "urgent" against a log that holds one record
C24_Witness ==
    /\ lastCall.tool = "escalate_ticket"
    /\ lastCall.args.severity_level = "urgent"
    /\ lastCall.io = "ok"
    /\ lastCall.content = <<"Error: Invalid severity level '", "urgent", "'">>
    /\ Len(ticketLog) = 1
    /\ Len(filed) = 1

\* C25: when the base index is unavailable (NEBULA_DB is None),
\* search_documentation returns the "database is not available" message
\* without querying the session index, whether or not a query would fail, so
\* documents uploaded in the session are never returned while the base index
\* is missing.
C25_NoBaseNoSessionResults ==
    [][(CallStep("search_documentation") /\ ~NEBULA_DB.present)
         => /\ ~lastCall'.raised
            /\ lastCall'.content =
                 <<"Error: NebulaSoft documentation database is not available. Please run ingest.py to build the vector database.">>
            /\ \A i \in 1..Len(lastCall'.content) :
                  /\ lastCall'.content[i] # "Uploaded Document"
                  /\ \A k \in 1..Len(TEMP_USER_DB.docs) :
                        lastCall'.content[i] # TEMP_USER_DB.docs[k].page_content]_vars

\* a document about the query has been uploaded, and the search still
\* answers that the database is not available
C25_Witness ==
    /\ ~NEBULA_DB.present
    /\ TEMP_USER_DB.present
    /\ \E k \in 1..Len(TEMP_USER_DB.docs) :
          TEMP_USER_DB.docs[k].page_content = "sync fails with error 500"
    /\ lastCall.tool = "search_documentation"
    /\ lastCall.io = "ok"
    /\ lastCall.content = DbUnavailableMessage

====
